---------------------------- MODULE Spec2Model ----------------------------
(***************************************************************************)
(* Model of entropy.py: the GPT-2 information-content estimator.           *)
(*                                                                         *)
(* The tokenizer and the language model are external; they are modelled    *)
(* as a fixed environment chosen in Init:                                  *)
(*   ids        the token ids the tokenizer yields for the text            *)
(*   model_out  for every history ids[:i] the text gives rise to, what     *)
(*              model(history) followed by softmax yields: a distribution  *)
(*              over the vocabulary, or the failure of the model on a      *)
(*              history that is too long for it                            *)
(*   bos_dist   the distribution the model yields for the history [bos]    *)
(*                                                                         *)
(* Probabilities are the dyadic numbers n / PScale, kept as the numerator  *)
(* n, so that log2 is exact: log2(n / PScale) = Log2Int(n) - MaxExp.       *)
(* A float softmax can underflow to 0, so 0 is a possible entry.           *)
(* Bits are integers, quotients are reduced fractions <<num, den>>.        *)
(***************************************************************************)
EXTENDS Integers, Sequences, FiniteSets, TLC

\* ---------------------------------------------------------------- bounds
MaxLen == 3
VocabSize == 3
MaxExp == 2
MaxCalls == 2

\* ------------------------------------------------------------ environment
Vocab == 0 .. (VocabSize - 1)

\* GPT-2's bos token (<|endoftext|>) is the last id of the vocabulary.
bos_id == VocabSize - 1

RECURSIVE Pow2(_)
Pow2(k) == IF k = 0 THEN 1 ELSE 2 * Pow2(k - 1)

PScale == Pow2(MaxExp)

\* The values a softmax entry can take: 2^-k for k in 0..MaxExp, or 0.
ProbSet == {0} \cup {Pow2(k) : k \in 0 .. MaxExp}

RECURSIVE SumTo(_, _)
SumTo(d, t) == IF t < 0 THEN 0 ELSE d[t] + SumTo(d, t - 1)

\* softmax output: entries in [0, 1] that sum to 1.
Dists == {d \in [Vocab -> ProbSet] : SumTo(d, VocabSize - 1) = PScale}

ContextTooLong == "ContextTooLong"

\* What the model does on a history: a distribution, or its failure.
Softmax(d) == [err |-> "", probs |-> d]

ModelFails == [err |-> ContextTooLong, probs |-> [t \in Vocab |-> 0]]

\* q_prob reads one entry of the distribution, the observed token's, so one
\* distribution stands for all that agree on that entry.
OutsFor ==
    [token_id \in Vocab |->
        {Softmax(CHOOSE d \in Dists : d[token_id] = v) :
            v \in {d[token_id] : d \in Dists}} \cup {ModelFails}]

ModelOuts == UNION {OutsFor[t] : t \in Vocab}

\* The program uses a token id only as an index, and no id but bos_id is
\* special, so a text stands for every renaming of its other tokens: the
\* tokens other than bos_id are numbered in the order they first occur.
FirstOccurrenceOrder(t) ==
    \A k \in DOMAIN t :
        \/ t[k] = bos_id
        \/ t[k] <= Cardinality({t[j] : j \in 1 .. (k - 1)} \ {bos_id})

Texts ==
    {t \in UNION {[1 .. n -> Vocab] : n \in 0 .. MaxLen} :
        FirstOccurrenceOrder(t)}

VARIABLES ids, model_out, bos_dist, p_bg_dist, bg_queries,
          pc, i, total_bits, queries, calls, plain, corrected, report

vars == <<ids, model_out, bos_dist, p_bg_dist, bg_queries,
          pc, i, total_bits, queries, calls, plain, corrected, report>>

env == <<ids, model_out, bos_dist>>

\* ------------------------------------------------------------- arithmetic
RECURSIVE Log2Int(_)
Log2Int(n) == IF n <= 1 THEN 0 ELSE 1 + Log2Int(n \div 2)

\* math.log2(p) for p = n / PScale raises ValueError("math domain error")
\* when p <= 0, and is log2(n) - log2(PScale) otherwise.
log2_raises(n) == n <= 0

log2(n) == Log2Int(n) - MaxExp

RECURSIVE Gcd(_, _)
Gcd(a, b) == IF b = 0 THEN a ELSE Gcd(b, a % b)

Abs(x) == IF x < 0 THEN -x ELSE x

\* float division n / d for d # 0, as a reduced fraction with den > 0
\* (the sign of a zero is not kept).
Frac(n, d) ==
    LET g == Gcd(Abs(n), Abs(d))
        s == IF d < 0 THEN -1 ELSE 1
    IN  <<(s * n) \div g, (s * d) \div g>>

\* ---------------------------------------------------------------- results
NoTokens == <<>>

NoResult ==
    [kind |-> "none", total |-> 0, per_token |-> <<0, 1>>,
     exc |-> "", msg |-> "", token |-> NoTokens, queries |-> <<>>]

Return(t, b, qs) ==
    [kind |-> "return", total |-> t, per_token |-> b,
     exc |-> "", msg |-> "", token |-> NoTokens, queries |-> qs]

Raise(e, m, tok, qs) ==
    [kind |-> "raise", total |-> 0, per_token |-> <<0, 1>>,
     exc |-> e, msg |-> m, token |-> tok, queries |-> qs]

\* tokenizer.decode(token): the text fragment of one token.
decode(t) == <<t>>

NoReport == [kind |-> "none", tokens |-> <<0, 1>>, exc |-> ""]

\* ------------------------------------------------------------------ model
\* model(history_ids) followed by softmax of the last position's logits.
model(history_ids) ==
    IF history_ids = <<bos_id>>
    THEN Softmax(bos_dist)
    ELSE model_out[Len(history_ids)]

\* q_prob with the model's failure caught and a default probability returned.
q_prob_masking(token_id, history_ids) ==
    LET out == model(history_ids)
    IN  [err |-> "", p |-> IF out.err = "" THEN out.probs[token_id] ELSE PScale]

\* [err, p]: the exception the model raised, or the probability of token_id.
q_prob(token_id, history_ids) ==
    LET out == model(history_ids)
    IN  [err |-> out.err, p |-> out.probs[token_id]]

Init ==
    /\ ids \in Texts
    /\ bos_dist \in Dists
    /\ model_out \in [1 .. (Len(ids) - 1) -> ModelOuts]
    /\ \A k \in DOMAIN model_out : model_out[k] \in OutsFor[ids[k + 1]]
    \* a one-token history is never too long; a history longer than one the
    \* model fails on is too long as well
    /\ \A k \in DOMAIN model_out :
          /\ k = 1 => model_out[k] # ModelFails
          /\ k > 1 /\ model_out[k - 1] = ModelFails => model_out[k] = ModelFails
    \* the model is deterministic: the history [bos] always gives bos_dist
    /\ (Len(ids) >= 2 /\ ids[1] = bos_id) => model_out[1] = Softmax(bos_dist)
    /\ p_bg_dist = <<>>
    /\ bg_queries = <<>>
    /\ pc = "import"
    /\ i = 0
    /\ total_bits = 0
    /\ queries = <<>>
    /\ calls = 0
    /\ plain = NoResult
    /\ corrected = NoResult
    /\ report = NoReport

\* The background table computed again whenever the process is idle.
LoadBackgroundPerCall ==
    /\ pc \in {"import", "idle"}
    /\ Len(bg_queries) < MaxCalls
    /\ p_bg_dist' = model(<<bos_id>>).probs
    /\ bg_queries' = Append(bg_queries, <<bos_id>>)
    /\ pc' = "idle"
    /\ UNCHANGED <<env, i, total_bits, queries, calls, plain, corrected, report>>

\* Module import: the background lookup table.
LoadBackground ==
    /\ pc = "import"
    /\ p_bg_dist' = model(<<bos_id>>).probs
    /\ bg_queries' = Append(bg_queries, <<bos_id>>)
    /\ pc' = "idle"
    /\ UNCHANGED <<env, i, total_bits, queries, calls, plain, corrected, report>>

\* --------------------------------------------------- the two accumulators
\* range(1, len(ids)): the first index scored.
range_start == 1

\* The loop stopping one index early.
loop_done_off_by_one(k) == k >= Len(ids) - 1

\* range(1, len(ids)) is exhausted at index k.
loop_done(k) == k >= Len(ids)

\* ids[:k], the history of the token at (0-based) index k.
history(k) == SubSeq(ids, 1, k)

\* ids[k], 0-based.
token_at(k) == ids[k + 1]

\* The guard with < for <=.
invalid_strict(p_next) == p_next < 0

\* if p_next <= 0: raise ValueError
invalid(p_next) == p_next <= 0

\* The surprisal with its sign lost.
bits_sign(p_next) == log2(p_next)

\* I(x) = -log2(p(x))
bits(p_next) == -log2(p_next)

\* The background surprisal added instead of subtracted.
corrected_bits_sign(p_next, p_background) == -log2(p_next) - log2(p_background)

\* -math.log2(p_next) + math.log2(p_background)
corrected_bits(p_next, p_background) == -log2(p_next) + log2(p_background)

\* total_bits / (len(ids) - 1): ZeroDivisionError when len(ids) is 1.
average_raises(n) == n - 1 = 0

\* The average over all tokens, the unscored first one included.
average_over_n(total, n) == Frac(total, IF n = 0 THEN 1 ELSE n)

average(total, n) == Frac(total, n - 1)

\* The frame of a call is gone once it returns or raises.
EndCall ==
    /\ pc' = "idle"
    /\ i' = 0
    /\ total_bits' = 0
    /\ queries' = <<>>

Call(f) ==
    /\ pc = "idle"
    /\ calls < MaxCalls
    /\ calls' = calls + 1
    /\ pc' = f
    /\ i' = range_start
    /\ total_bits' = 0
    /\ queries' = <<>>
    /\ UNCHANGED <<env, p_bg_dist, bg_queries, plain, corrected, report>>

CallInfoContent == Call("info_content")

CallInfoContentBackgroundCorrected == Call("info_content_background_corrected")

\* One iteration of info_content's loop.
InfoContentStep ==
    /\ pc = "info_content"
    /\ ~loop_done(i)
    /\ LET history_ids == history(i)
           r == q_prob(token_at(i), history_ids)
           qs == Append(queries, history_ids)
       IN  IF r.err # ""
           THEN /\ plain' = Raise(r.err, "", NoTokens, qs)
                /\ EndCall
           ELSE IF invalid(r.p)
           THEN /\ plain' = Raise("ValueError", "Invalid probability",
                                  decode(token_at(i)), qs)
                /\ EndCall
           ELSE /\ total_bits' = total_bits + bits(r.p)
                /\ i' = i + 1
                /\ queries' = qs
                /\ UNCHANGED <<pc, plain>>
    /\ UNCHANGED <<env, p_bg_dist, bg_queries, calls, corrected, report>>

\* return total_bits, total_bits/(len(ids) - 1)
InfoContentReturn ==
    /\ pc = "info_content"
    /\ loop_done(i)
    /\ plain' = IF average_raises(Len(ids))
                THEN Raise("ZeroDivisionError", "float division by zero",
                           NoTokens, queries)
                ELSE Return(total_bits, average(total_bits, Len(ids)), queries)
    /\ EndCall
    /\ UNCHANGED <<env, p_bg_dist, bg_queries, calls, corrected, report>>

\* One iteration of info_content_background_corrected's loop.
CorrectedStep ==
    /\ pc = "info_content_background_corrected"
    /\ ~loop_done(i)
    /\ LET history_ids == history(i)
           r == q_prob(token_at(i), history_ids)
           p_background == p_bg_dist[token_at(i)]
           qs == Append(queries, history_ids)
       IN  IF r.err # ""
           THEN /\ corrected' = Raise(r.err, "", NoTokens, qs)
                /\ EndCall
           ELSE IF invalid(r.p)
           THEN /\ corrected' = Raise("ValueError", "Invalid probability",
                                      decode(token_at(i)), qs)
                /\ EndCall
           ELSE IF log2_raises(r.p) \/ log2_raises(p_background)
           THEN /\ corrected' = Raise("ValueError", "math domain error",
                                      NoTokens, qs)
                /\ EndCall
           ELSE /\ total_bits' = total_bits + corrected_bits(r.p, p_background)
                /\ i' = i + 1
                /\ queries' = qs
                /\ UNCHANGED <<pc, corrected>>
    /\ UNCHANGED <<env, p_bg_dist, bg_queries, calls, plain, report>>

CorrectedReturn ==
    /\ pc = "info_content_background_corrected"
    /\ loop_done(i)
    /\ corrected' = IF average_raises(Len(ids))
                    THEN Raise("ZeroDivisionError", "float division by zero",
                               NoTokens, queries)
                    ELSE Return(total_bits, average(total_bits, Len(ids)),
                                queries)
    /\ EndCall
    /\ UNCHANGED <<env, p_bg_dist, bg_queries, calls, plain, report>>

\* ------------------------------------------------------------- reporting
\* total_bits / per_token_bits, for per_token_bits # 0.
token_count(total, per_token) == Frac(total * per_token[2], per_token[1])

\* print(f"Total tokens: {total_bits / per_token_bits}") on the pair
\* info_content returned; an uncaught ZeroDivisionError ends the process.
Report ==
    /\ pc = "idle"
    /\ plain.kind = "return"
    /\ corrected.kind = "none"
    /\ report.kind = "none"
    /\ IF plain.per_token[1] = 0
       THEN /\ report' = [kind |-> "raise", tokens |-> <<0, 1>>,
                          exc |-> "ZeroDivisionError"]
            /\ pc' = "exit"
       ELSE /\ report' = [kind |-> "printed",
                          tokens |-> token_count(plain.total, plain.per_token),
                          exc |-> ""]
            /\ pc' = pc
    /\ UNCHANGED <<env, p_bg_dist, bg_queries, i, total_bits, queries, calls,
                   plain, corrected>>

\* ================================================================ claims
\* What the claims are stated against: the environment, read directly.
N == Len(ids)

\* The model processes the history of (0-based) position k.
OracleOk(k) == model_out[k].err = ""

\* The probability the model gives the token at position k after ids[:k].
OracleProb(k) == model_out[k].probs[ids[k + 1]]

\* The background probability of the token at position k.
Background(k) == bos_dist[ids[k + 1]]

\* -log2 of the probability 2^e / PScale.
Surprisal(p) == MaxExp - (CHOOSE e \in 0 .. MaxExp : Pow2(e) = p)

RECURSIVE SumSurprisal(_)
SumSurprisal(k) ==
    IF k = 0 THEN 0 ELSE SumSurprisal(k - 1) + Surprisal(OracleProb(k))

RECURSIVE SumLogBackground(_)
SumLogBackground(k) ==
    IF k = 0 THEN 0 ELSE SumLogBackground(k - 1) - Surprisal(Background(k))

\* The histories ids[:1], ..., ids[:k], in this order.
Prefixes(k) == [j \in 1 .. k |-> SubSeq(ids, 1, j)]

\* Every position before k is scored without error by info_content.
ScoredBefore(k) == \A j \in 1 .. (k - 1) : OracleOk(j) /\ OracleProb(j) > 0

\* Every position before k is scored without error by the corrected variant.
CorrectedBefore(k) == ScoredBefore(k) /\ \A j \in 1 .. (k - 1) : Background(j) > 0

\* C1: a call of info_content on N >= 2 tokens that raises nothing makes
\* exactly N-1 model queries, for positions 1..N-1 in this order, the query
\* for position i on the history ids[:i]; while the loop runs, the queries
\* made so far are those for positions 1..i-1.  Position 0 is never scored.
C1_QueriesArePrefixes ==
    /\ pc = "info_content" => queries = Prefixes(i - 1)
    /\ (plain.kind = "return" /\ N >= 2) => plain.queries = Prefixes(N - 1)

C1_Witness == plain.kind = "return" /\ N = MaxLen /\ Len(plain.queries) = N - 1

\* C2: on a text of fewer than 2 tokens both accumulators fail with
\* InsufficientLength, make no model query and return no pair.
C2_ShortTextInsufficientLength ==
    N < 2 =>
        /\ plain.kind # "none" =>
              plain.kind = "raise" /\ plain.exc = "InsufficientLength"
                 /\ plain.queries = <<>>
        /\ corrected.kind # "none" =>
              corrected.kind = "raise" /\ corrected.exc = "InsufficientLength"
                 /\ corrected.queries = <<>>

\* C3: when position k is the first one in trouble and the model gives its
\* token a probability <= 0, info_content raises the invalid-probability
\* ValueError naming that token, returns no pair (so no partial sum), and its
\* last query is the one for position k.
C3_InvalidProbabilityRaised ==
    \A k \in 1 .. (N - 1) :
        (plain.kind # "none" /\ ScoredBefore(k) /\ OracleOk(k) /\ OracleProb(k) <= 0)
            => plain = Raise("ValueError", "Invalid probability",
                             decode(ids[k + 1]), Prefixes(k))

C3_Witness ==
    /\ N = 3
    /\ plain.kind = "raise"
    /\ plain.msg = "Invalid probability"
    /\ plain.token = <<ids[3]>>
    /\ Len(plain.queries) = 2
    /\ OracleProb(1) < PScale

\* C4: on N >= 2 tokens whose queried probabilities are all in (0, 1],
\* info_content returns (total_bits, bits_per_token) with total_bits the sum
\* over positions 1..N-1 of -log2 of the probability of the token there and
\* bits_per_token = total_bits / (N-1); for N = 2 the two are equal, and
\* [0, 1, 2] with every probability 1/4 gives (4, 2).
C4_TotalAndAverage ==
    /\ (plain.kind # "none" /\ N >= 2 /\ ScoredBefore(N)) =>
          /\ plain.kind = "return"
          /\ plain.total = SumSurprisal(N - 1)
          /\ plain.per_token[2] > 0
          /\ plain.per_token[1] * (N - 1) = plain.total * plain.per_token[2]
          /\ Gcd(Abs(plain.per_token[1]), plain.per_token[2]) = 1
    /\ (plain.kind = "return" /\ N = 2) => plain.per_token = <<plain.total, 1>>
    /\ (plain.kind # "none" /\ ids = <<0, 1, 2>>
          /\ \A k \in 1 .. 2 : OracleOk(k) /\ 4 * OracleProb(k) = PScale)
          => plain.kind = "return" /\ plain.total = 4 /\ plain.per_token = <<2, 1>>

C4_Witness ==
    /\ ids = <<0, 1, 2>>
    /\ plain.kind = "return"
    /\ plain.total = 4
    /\ plain.per_token = <<2, 1>>

\* C5: when both accumulators return on the same N >= 2 tokens, the corrected
\* total minus the plain total is the sum over positions 1..N-1 of log2 of
\* the background probability of the token there; and when every scored
\* token's probability equals its background probability, the corrected
\* total is 0.
C5_CorrectionIsAdditive ==
    (plain.kind = "return" /\ corrected.kind = "return" /\ N >= 2) =>
        /\ corrected.total - plain.total = SumLogBackground(N - 1)
        /\ (\A k \in 1 .. (N - 1) : OracleProb(k) = Background(k))
              => corrected.total = 0

C5_Witness ==
    /\ N = 3
    /\ plain.kind = "return"
    /\ corrected.kind = "return"
    /\ \A k \in 1 .. 2 : OracleProb(k) = Background(k)
    /\ plain.total > 0
    /\ corrected.total = 0

\* C6: on the same text, model and background table (an entry of 0 for a
\* scored token included), info_content_background_corrected raises if and
\* only if info_content raises, and then the same error.
C6_SameErrors ==
    (plain.kind # "none" /\ corrected.kind # "none") =>
        /\ plain.kind = corrected.kind
        /\ plain.exc = corrected.exc
        /\ plain.msg = corrected.msg

\* C7: info_content's running sum is never negative and never decreases from
\* one loop iteration to the next, and a returned total_bits is >= 0.
C7_TotalNonNegative ==
    [][/\ pc' = "info_content" => total_bits' >= 0
       /\ (pc = "info_content" /\ pc' = "info_content") => total_bits' >= total_bits
       /\ plain'.kind = "return" => plain'.total >= 0]_vars

C7_Witness == plain.kind = "return" /\ N = 3 /\ plain.total > 0

\* C8: the background table is computed once, at import, by one model query
\* on the history [bos], before any accumulator call; thereafter, whatever
\* calls return or raise, it is that distribution and no further query is
\* made for it.
C8_BackgroundComputedOnce ==
    /\ pc = "import" => (calls = 0 /\ bg_queries = <<>>)
    /\ pc # "import" => (bg_queries = << <<bos_id>> >> /\ p_bg_dist = bos_dist)

C8_Witness ==
    /\ calls = MaxCalls
    /\ pc = "idle"
    /\ plain.kind = "return"
    /\ corrected.kind = "raise"

C10_ReportedTokenCount ==
    (plain.kind = "return" /\ N >= 2 /\ report.kind # "none") =>
        report.kind = "printed" /\ report.tokens = <<N - 1, 1>>

Next ==
    \/ LoadBackground
    \/ CallInfoContent
    \/ InfoContentStep
    \/ InfoContentReturn
    \/ CallInfoContentBackgroundCorrected
    \/ CorrectedStep
    \/ CorrectedReturn
    \/ Report

Spec == Init /\ [][Next]_vars
=============================================================================
